---- MODULE Spec2Model ----
(***************************************************************************)
(* A model of pygame_gui_extras: the GuiApp run loop (app/gui_app.py), the *)
(* ThreePanelApp layout preset (app/ThreePanelApp.py) and the UIImageTiled *)
(* widget (ui_image_tiled.py).                                             *)
(*                                                                         *)
(* Numbers.  Pixel heights are Python ints.  Fractional heights are Python *)
(* floats: binary floating point, every result rounded to the nearest      *)
(* float, ties to even.  A float is held as its numerator over Grid; the   *)
(* model keeps MantBits significant bits where a Python float keeps 53.    *)
(* pygame.Rect truncates what it is given toward zero.                     *)
(***************************************************************************)
EXTENDS Integers, Sequences, FiniteSets, TLC

\* ---------------------------------------------------------------- bounds
MaxH == 3            \* window heights 1..MaxH
MaxW == 2            \* window widths 1..MaxW
FracDen == 5         \* fractional heights are the floats written k/FracDen, k in 0..FracDen+1
MantBits == 3        \* significant bits of a float
MaxQueue == 2        \* events waiting in the pygame queue
MaxIter == 2          \* iterations of the run loop
MaxTile == 2          \* tile sides 1..MaxTile
MaxDim == 3           \* widget sides 1..MaxDim
MaxSetDims == 2       \* calls of set_dimensions
MaxClicks == 4        \* button presses in the worker-thread example

VARIABLES
    pc,              \* where the program is: "new", "failed", "ready", "loop", "events", "done"
    winSize,         \* root_window_surface size <<w, h>>
    mgrSize,         \* the UIManager's window resolution <<w, h>>
    is_running,      \* GuiApp.is_running
    top_panel,       \* ThreePanelApp._top_panel
    middle_panel,    \* ThreePanelApp._middle_panel
    bottom_panel,    \* ThreePanelApp._bottom_panel
    args,            \* the constructor's arguments, as kept in _top_height, _bottom_height
    error,           \* the exception the constructor raised, "none" if it raised none
    osQueue,         \* the pygame event queue
    pending,         \* the events pygame.event.get() returned, not yet iterated
    hookSeen,        \* events handed to handle_event
    mgrSeen,         \* events handed to UIManager.process_events
    shutdowns,       \* calls of on_shutdown
    frames,          \* iterations that reached update and draw
    iter,            \* calls of _main_loop
    quitDrained,     \* a QUIT event has been taken by the loop
    tpc,             \* the tiled widget: "new" or "shown"
    tile,            \* UIImageTiled._tile
    rect_size,       \* UIImageTiled.rect.size <<w, h>>
    image,           \* UIImageTiled.image, the surface displayed
    original_image,  \* UIImageTiled.original_image
    lastTiling,      \* what the last create_tiled_surface call did
    setDims,         \* calls of set_dimensions
    gpc,             \* the example's GUI thread: where it is
    wpc,             \* the example's worker thread: where it is
    click_count,     \* ThreadTestApp._click_count
    status_text,     \* the number the _status label shows
    worker_queue,    \* ThreadTestApp._worker_queue
    wtask,           \* the worker's local `cmd`
    wtmp,            \* the value the worker read for `+= 1`
    clicks           \* button presses handled so far

appVars == <<pc, winSize, mgrSize, is_running, top_panel, middle_panel, bottom_panel,
             args, error, osQueue, pending, hookSeen, mgrSeen, shutdowns, frames, iter,
             quitDrained>>

tileVars == <<tpc, tile, rect_size, image, original_image, lastTiling, setDims>>

threadVars == <<gpc, wpc, click_count, status_text, worker_queue, wtask, wtmp, clicks>>

vars == <<appVars, tileVars, threadVars>>

\* ------------------------------------------------------------ pygame.Rect
\* int conversion of the rational n/d, toward zero
Trunc(n, d) == IF n >= 0 THEN n \div d ELSE -((-n) \div d)

\* pygame.Rect(x, y, w, h) of rationals over the denominator d
Rect(x, y, w, h, d) ==
    [x |-> Trunc(x, d), y |-> Trunc(y, d), w |-> Trunc(w, d), h |-> Trunc(h, d)]

Top(r) == r.y
Bottom(r) == r.y + r.h
Left(r) == r.x
Right(r) == r.x + r.w

NoPanel == [rel |-> Rect(0, 0, 0, 0, 1), rect |-> Rect(0, 0, 0, 0, 1), bm |-> 0, rm |-> 0]

\* ------------------------------------------- the toolkit's anchor system
\* An element keeps its relative rectangle `rel`, the margins `bm` and `rm`
\* to the bottom and right anchors measured when it was created, and the
\* absolute rectangle `rect` derived from them.  tt and bt are the
\* rectangles of the sibling targets, used when the anchors name them.
RefTop(a, cont, tt) == IF a.top_target THEN Bottom(tt) ELSE Top(cont)
RefBottom(a, cont, bt) == IF a.bottom_target THEN Top(bt) ELSE Bottom(cont)

NewTop(rel, a, cont, tt, bt) ==
    IF a.top = "top" THEN RefTop(a, cont, tt) + rel.y
                     ELSE RefBottom(a, cont, bt) + rel.y

NewLeft(rel, a, cont) ==
    IF a.left = "left" THEN Left(cont) + rel.x ELSE Right(cont) + rel.x

\* the element's absolute rectangle for the margins bm, rm
Anchored(rel, bm, rm, a, cont, tt, bt) ==
    LET t == NewTop(rel, a, cont, tt, bt)
        l == NewLeft(rel, a, cont)
        b == IF a.bottom = "top" THEN RefTop(a, cont, tt) + rel.y + rel.h
                                 ELSE RefBottom(a, cont, bt) - bm
        r == IF a.right = "left" THEN Left(cont) + rel.x + rel.w
                                 ELSE Right(cont) - rm
    IN  [x |-> l, y |-> t, w |-> r - l, h |-> b - t]

\* UIPanel(relative_rect, ..., anchors=a): the margins are measured once
CreateElement(rel, a, cont, tt, bt) ==
    LET bm == RefBottom(a, cont, bt) - (NewTop(rel, a, cont, tt, bt) + rel.h)
        rm == Right(cont) - (NewLeft(rel, a, cont) + rel.w)
    IN  [rel |-> rel, rect |-> Anchored(rel, bm, rm, a, cont, tt, bt), bm |-> bm, rm |-> rm]

\* the element after its container or targets changed; a manager without
\* the element has nothing to re-derive
Reflow(e, a, cont, tt, bt) ==
    LET r == Anchored(e.rel, e.bm, e.rm, a, cont, tt, bt)
    IN  IF e = NoPanel THEN e
        ELSE [e EXCEPT !.rect = r, !.rel = [e.rel EXCEPT !.w = r.w, !.h = r.h]]

RootRect(size) == [x |-> 0, y |-> 0, w |-> size[1], h |-> size[2]]

WinSizes == (1..MaxW) \X (1..MaxH)

\* ------------------------------------------------------- GuiApp.__init__
\* a window of the given size, a manager of the same size, not running
GuiAppInit(size) ==
    /\ winSize' = size
    /\ mgrSize' = size
    /\ is_running' = FALSE

ConstructGuiApp ==
    /\ pc = "new"
    /\ \E size \in WinSizes : GuiAppInit(size)
    /\ pc' = "ready"
    /\ UNCHANGED <<top_panel, middle_panel, bottom_panel, args, error, osQueue, pending, hookSeen,
                   mgrSeen, shutdowns, frames, iter, quitDrained,
                   tileVars, threadVars>>

\* ------------------------------------------------ ThreePanelApp.__init__
TopAnchors ==
    [top |-> "top", left |-> "left", bottom |-> "top", right |-> "right",
     top_target |-> FALSE, bottom_target |-> FALSE]

BottomAnchors ==
    [top |-> "bottom", left |-> "left", bottom |-> "bottom", right |-> "right",
     top_target |-> FALSE, bottom_target |-> FALSE]

MiddleAnchors ==
    [top |-> "top", left |-> "left", bottom |-> "bottom", right |-> "right",
     top_target |-> TRUE, bottom_target |-> TRUE]

\* ----------------------------------------------------------- Python float
\* every float of the model is a multiple of 1/Grid
Grid == 2^(FracDen + MantBits)

\* the largest g with 2^g <= n, for n >= 1
RECURSIVE Log2(_)
Log2(n) == IF n < 2 THEN 0 ELSE 1 + Log2(n \div 2)

\* the gap between neighbouring floats at the magnitude n/Grid
Ulp(n) ==
    IF n >= 2^(MantBits - 1) THEN 2^(Log2(n) - MantBits + 1) ELSE 1

\* the float nearest to num/(den * Grid) for num >= 0, ties to even
RoundFloat(num, den) ==
    LET step == den * Ulp(num \div den)
        q == num \div step
        r == num % step
        up == 2 * r > step \/ (2 * r = step /\ q % 2 = 1)
    IN  (IF up THEN q + 1 ELSE q) * Ulp(num \div den)

Float(num, den) == IF num >= 0 THEN RoundFloat(num, den) ELSE -RoundFloat(-num, den)

\* the float a program text k/FracDen stands for, e.g. 0.2
FloatLiteral(k) == Float(k * Grid, FracDen)

\* the float of an int
IntToFloat(n) == Float(n * Grid, 1)

FAdd(a, b) == Float(a + b, 1)
FSub(a, b) == Float(a - b, 1)
FMul(a, b) == Float(a * b, Grid)

\* 1.0
One == IntToFloat(1)

\* ------------------------------------ ThreePanelApp.__init__, the heights
\* the denominator of the heights
Den(frac) == IF frac THEN Grid ELSE 1

\* a check of each height that forgets their sum
RejectFraction_NoSumCheck(frac, tn, bn) == frac /\ (tn > One \/ bn > One)

\* 'Panels will not fit. Total is > 100%.'
RejectFraction(frac, tn, bn) ==
    frac /\ (tn > One \/ bn > One \/ FAdd(tn, bn) > One)

\* a check that has lost its `not` and runs for fractions instead
RejectAbsolute_WrongMode(frac, tn, bn, H) == frac /\ tn + bn > H

\* 'Panels will not fit. Total is > window height.'
RejectAbsolute(frac, tn, bn, H) == ~frac /\ tn + bn > H

\* _top_height, _bottom_height and _middle_height, as numerators over Den(frac)
ResolvedHeight(frac, n, H) == IF frac THEN FMul(IntToFloat(H), n) ELSE n

MiddleHeight(frac, tn, bn, H) ==
    IF frac
    THEN FSub(FSub(IntToFloat(H), ResolvedHeight(frac, tn, H)), ResolvedHeight(frac, bn, H))
    ELSE H - tn - bn

\* a check that lets a middle panel of height 0 through
RejectMiddle_AllowsZero(frac, tn, bn, H) == MiddleHeight(frac, tn, bn, H) < 0

\* 'Panels will not fit. No room for middle panel.'
RejectMiddle(frac, tn, bn, H) == MiddleHeight(frac, tn, bn, H) <= 0

Rejected(frac, tn, bn, H) ==
    RejectFraction(frac, tn, bn) \/ RejectAbsolute(frac, tn, bn, H) \/ RejectMiddle(frac, tn, bn, H)

\* the exception raised, the checks taken in the order of the code
ErrorRaised(frac, tn, bn, H) ==
    IF RejectFraction(frac, tn, bn) THEN "Total is > 100%"
    ELSE IF RejectAbsolute(frac, tn, bn, H) THEN "Total is > window height"
    ELSE IF RejectMiddle(frac, tn, bn, H) THEN "No room for middle panel"
    ELSE "none"

TopRect(frac, tn, W, H) ==
    Rect(0, 0, W * Den(frac), ResolvedHeight(frac, tn, H), Den(frac))

BottomRect(frac, bn, W, H) ==
    Rect(0, -ResolvedHeight(frac, bn, H), W * Den(frac), ResolvedHeight(frac, bn, H), Den(frac))

\* window_height - (_top_height + _bottom_height)
MiddleRectHeight(frac, tn, bn, H) ==
    IF frac
    THEN FSub(IntToFloat(H), FAdd(ResolvedHeight(frac, tn, H), ResolvedHeight(frac, bn, H)))
    ELSE H - (tn + bn)

MiddleRect(frac, tn, bn, W, H) ==
    Rect(0, 0, W * Den(frac), MiddleRectHeight(frac, tn, bn, H), Den(frac))

HeightArgs(frac, H) ==
    IF frac THEN {FloatLiteral(k) : k \in 0..(FracDen + 1)} ELSE 0..(H + 1)

\* the three panels on a window of the given size, top and bottom first
\* because the middle panel is anchored to them
PanelsFor(t, m, b, size) ==
    LET root == RootRect(size)
        t2 == Reflow(t, TopAnchors, root, root, root)
        b2 == Reflow(b, BottomAnchors, root, root, root)
        m2 == Reflow(m, MiddleAnchors, root, t2.rect, b2.rect)
    IN  <<t2, m2, b2>>

Construct(size, frac, tn, bn) ==
    /\ pc = "new"
    /\ GuiAppInit(size)
    /\ args' = [frac |-> frac, top |-> tn, bottom |-> bn]
    /\ error' = ErrorRaised(frac, tn, bn, size[2])
    /\ IF Rejected(frac, tn, bn, size[2])
       THEN /\ pc' = "failed"
            /\ UNCHANGED <<top_panel, middle_panel, bottom_panel>>
       ELSE LET root == RootRect(size)
                t == CreateElement(TopRect(frac, tn, size[1], size[2]), TopAnchors, root, root, root)
                b == CreateElement(BottomRect(frac, bn, size[1], size[2]), BottomAnchors, root, root, root)
                m == CreateElement(MiddleRect(frac, tn, bn, size[1], size[2]), MiddleAnchors,
                                   root, t.rect, b.rect)
            IN  /\ pc' = "ready"
                /\ top_panel' = t
                /\ bottom_panel' = b
                /\ middle_panel' = m
    /\ UNCHANGED <<osQueue, pending, hookSeen, mgrSeen, shutdowns, frames, iter, quitDrained,
                   tileVars, threadVars>>

ConstructApp ==
    \E size \in WinSizes, frac \in BOOLEAN :
        \E tn \in HeightArgs(frac, size[2]), bn \in HeightArgs(frac, size[2]) :
            Construct(size, frac, tn, bn)

\* ------------------------------------------------- the window system
\* The user closes or resizes the window, or does anything else; pygame
\* queues an event.  A resize has already changed the window surface when
\* its event is queued.  pygame.event.get() takes the whole queue at once,
\* so an event that arrives while the loop iterates over the events it got
\* is the same to the program as one that arrives right after.
CanPost == /\ pc \in {"ready", "loop"}
           /\ Len(osQueue) < MaxQueue

PostQuit ==
    /\ CanPost
    /\ osQueue' = Append(osQueue, "QUIT")
    /\ UNCHANGED <<pc, winSize, mgrSize, is_running, top_panel, middle_panel, bottom_panel,
                   args, error, pending, hookSeen, mgrSeen, shutdowns, frames, iter, quitDrained,
                   tileVars, threadVars>>

PostResize ==
    /\ CanPost
    /\ \E size \in WinSizes : winSize' = size
    /\ osQueue' = Append(osQueue, "WINDOWRESIZED")
    /\ UNCHANGED <<pc, mgrSize, is_running, top_panel, middle_panel, bottom_panel,
                   args, error, pending, hookSeen, mgrSeen, shutdowns, frames, iter, quitDrained,
                   tileVars, threadVars>>

PostOther ==
    /\ CanPost
    /\ osQueue' = Append(osQueue, "OTHER")
    /\ UNCHANGED <<pc, winSize, mgrSize, is_running, top_panel, middle_panel, bottom_panel,
                   args, error, pending, hookSeen, mgrSeen, shutdowns, frames, iter, quitDrained,
                   tileVars, threadVars>>

\* ----------------------------------------------------------- GuiApp.run
\* run(): is_running is False after construction, so the early return is
\* not taken
Run ==
    /\ pc = "ready"
    /\ ~is_running
    /\ is_running' = TRUE
    /\ pc' = "loop"
    /\ UNCHANGED <<winSize, mgrSize, top_panel, middle_panel, bottom_panel, args, error, osQueue,
                   pending, hookSeen, mgrSeen, shutdowns, frames, iter, quitDrained,
                   tileVars, threadVars>>

\* while self.is_running: _main_loop() -- clock.tick, then pygame.event.get()
MainLoopBegin ==
    /\ pc = "loop"
    /\ is_running
    /\ iter < MaxIter
    /\ iter' = iter + 1
    /\ pending' = osQueue
    /\ osQueue' = <<>>
    /\ pc' = "events"
    /\ UNCHANGED <<winSize, mgrSize, is_running, top_panel, middle_panel, bottom_panel, args, error,
                   hookSeen, mgrSeen, shutdowns, frames, quitDrained,
                   tileVars, threadVars>>

\* if self.is_running: self._ui_manager.process_events(event)
ProcessEvents(running, event, handled) ==
    IF running THEN mgrSeen \cup {[type |-> event, handled |-> handled]} ELSE mgrSeen

\* a QUIT branch that calls on_shutdown and forgets to stop the loop
EventQuit_KeepsRunning ==
    /\ pc = "events"
    /\ pending # <<>>
    /\ Head(pending) = "QUIT"
    /\ shutdowns' = shutdowns + 1
    /\ quitDrained' = TRUE
    /\ mgrSeen' = ProcessEvents(is_running, Head(pending), FALSE)
    /\ pending' = Tail(pending)
    /\ UNCHANGED <<pc, winSize, mgrSize, is_running, top_panel, middle_panel, bottom_panel,
                   args, error, osQueue, hookSeen, frames, iter,
                   tileVars, threadVars>>

\* event.type == pygame.QUIT
EventQuit ==
    /\ pc = "events"
    /\ pending # <<>>
    /\ Head(pending) = "QUIT"
    /\ shutdowns' = shutdowns + 1
    /\ is_running' = FALSE
    /\ quitDrained' = TRUE
    /\ mgrSeen' = ProcessEvents(is_running', Head(pending), FALSE)
    /\ pending' = Tail(pending)
    /\ UNCHANGED <<pc, winSize, mgrSize, top_panel, middle_panel, bottom_panel, args, error, osQueue,
                   hookSeen, frames, iter,
                   tileVars, threadVars>>

\* event.type == pygame.WINDOWRESIZED: the background is recreated and the
\* manager told the window's size, which re-derives the anchored panels
EventResize ==
    /\ pc = "events"
    /\ pending # <<>>
    /\ Head(pending) = "WINDOWRESIZED"
    /\ mgrSize' = winSize
    /\ LET p == PanelsFor(top_panel, middle_panel, bottom_panel, winSize)
       IN  /\ top_panel' = p[1]
           /\ middle_panel' = p[2]
           /\ bottom_panel' = p[3]
    /\ mgrSeen' = ProcessEvents(is_running, Head(pending), FALSE)
    /\ pending' = Tail(pending)
    /\ UNCHANGED <<pc, winSize, is_running, args, error, osQueue, hookSeen, shutdowns, frames, iter, quitDrained,
                   tileVars, threadVars>>

\* any other event goes to handle_event, whose result (True: handled) the
\* loop does not look at
EventOther ==
    /\ pc = "events"
    /\ pending # <<>>
    /\ Head(pending) = "OTHER"
    /\ \E handled \in BOOLEAN :
          /\ hookSeen' = hookSeen \cup {[type |-> Head(pending), handled |-> handled]}
          /\ mgrSeen' = ProcessEvents(is_running, Head(pending), handled)
    /\ pending' = Tail(pending)
    /\ UNCHANGED <<pc, winSize, mgrSize, is_running, top_panel, middle_panel, bottom_panel,
                   args, error, osQueue, shutdowns, frames, iter, quitDrained,
                   tileVars, threadVars>>

\* if not self.is_running: return
ReturnEarly ==
    /\ pc = "events"
    /\ pending = <<>>
    /\ ~is_running
    /\ pc' = "loop"
    /\ UNCHANGED <<winSize, mgrSize, is_running, top_panel, middle_panel, bottom_panel, args, error,
                   osQueue, pending, hookSeen, mgrSeen, shutdowns, frames, iter,
                   quitDrained,
                   tileVars, threadVars>>

\* ui_manager.update, self.update, blit, draw_ui, display.update
Frame ==
    /\ pc = "events"
    /\ pending = <<>>
    /\ is_running
    /\ frames' = frames + 1
    /\ pc' = "loop"
    /\ UNCHANGED <<winSize, mgrSize, is_running, top_panel, middle_panel, bottom_panel, args, error,
                   osQueue, pending, hookSeen, mgrSeen, shutdowns, iter, quitDrained,
                   tileVars, threadVars>>

\* the while loop ends and run() returns
RunReturn ==
    /\ pc = "loop"
    /\ ~is_running
    /\ pc' = "done"
    /\ UNCHANGED <<winSize, mgrSize, is_running, top_panel, middle_panel, bottom_panel, args, error,
                   osQueue, pending, hookSeen, mgrSeen, shutdowns, frames, iter,
                   quitDrained,
                   tileVars, threadVars>>

\* ------------------------------------------------------------ surfaces
\* A surface is its size, its pixels and what was done to it.  A pixel of
\* the tile is named by its place in the tile, so that no two pixels of the
\* tile look alike; "black" is a pixel of a new surface nothing was drawn on.
Pixels(w, h) == (0..(w - 1)) \X (0..(h - 1))

Surface(w, h, pix) == [w |-> w, h |-> h, pix |-> pix, premul |-> 0, scaled |-> FALSE]

TileOf(w, h) == Surface(w, h, [p \in Pixels(w, h) |-> p])

\* pygame.Surface((w, h))
NewSurface(w, h) == Surface(w, h, [p \in Pixels(w, h) |-> "black"])

NoSurface == Surface(0, 0, <<>>)

GetSize(s) == <<s.w, s.h>>

\* surface.blit(src, (x, y)): the part of src that falls outside is clipped
Blit(s, src, x, y) ==
    [s EXCEPT !.pix = [p \in Pixels(s.w, s.h) |->
        IF /\ x <= p[1] /\ p[1] < x + src.w
           /\ y <= p[2] /\ p[2] < y + src.h
        THEN src.pix[<<p[1] - x, p[2] - y>>]
        ELSE s.pix[p]]]

\* premul_alpha_surface(surface.convert_alpha()): a premultiplied copy
PremulAlpha(s) == [s EXCEPT !.premul = s.premul + 1]

\* pygame.transform.smoothscale(surface, size)
SmoothScale(s, size) ==
    [s EXCEPT !.w = size[1], !.h = size[2], !.scaled = TRUE,
              !.pix = [p \in Pixels(size[1], size[2]) |->
                          s.pix[<<(p[1] * s.w) \div size[1], (p[2] * s.h) \div size[2]>>]]]

\* range(0, stop, step) as a sequence
RangeSeq(stop, step) == [i \in 1..((stop + step - 1) \div step) |-> (i - 1) * step]

\* ------------------------------------- UIImageTiled.create_tiled_surface
\* tile_width, tile_height = self._tile.get_height(), self._tile.get_width()
TileWidth(t) == t.h
TileHeight(t) == t.w

\* the offsets of the double loop, in the order they are visited
GridOffsets(size, t) ==
    LET xs == RangeSeq(size[1], TileWidth(t))
        ys == RangeSeq(size[2], TileHeight(t))
    IN  [i \in 1..(Len(xs) * Len(ys)) |->
            <<xs[((i - 1) % Len(xs)) + 1], ys[((i - 1) \div Len(xs)) + 1]>>]

RECURSIVE BlitAll(_, _, _)
BlitAll(s, src, offsets) ==
    IF offsets = <<>> THEN s
    ELSE BlitAll(Blit(s, src, Head(offsets)[1], Head(offsets)[2]), src, Tail(offsets))

UsesTileDirectly(t, size) == size[1] = TileWidth(t) /\ size[2] = TileHeight(t)

\* the surface returned, whether it is the tile object itself, and the
\* offsets blitted at
CreateTiledSurface(t, size) ==
    IF UsesTileDirectly(t, size)
    THEN [surface |-> t, is_tile |-> TRUE, blits |-> <<>>, size |-> size]
    ELSE [surface |-> BlitAll(NewSurface(size[1], size[2]), t, GridOffsets(size, t)),
          is_tile |-> FALSE, blits |-> GridOffsets(size, t), size |-> size]

TileSides == 1..MaxTile
WidgetSizes == (1..MaxDim) \X (1..MaxDim)

\* ------------------------------------------------- UIImageTiled.__init__
ConstructTile(tw, th, size) ==
    /\ tpc = "new"
    /\ tpc' = "shown"
    /\ rect_size' = size
    /\ tile' = TileOf(tw, th)
    /\ lastTiling' = CreateTiledSurface(tile', size)
    /\ LET image_surface == PremulAlpha(lastTiling'.surface)
       IN  IF image_surface.w # size[1] \/ image_surface.h # size[2]
           THEN /\ original_image' = image_surface
                /\ image' = SmoothScale(image_surface, size)
           ELSE /\ original_image' = NoSurface
                /\ image' = image_surface
    /\ UNCHANGED <<setDims, appVars, threadVars>>

ConstructWidget ==
    \E tw \in TileSides, th \in TileSides, size \in WidgetSizes : ConstructTile(tw, th, size)

\* ------------------------------------------- UIImageTiled.set_dimensions
SetDimensions(size) ==
    /\ tpc = "shown"
    /\ setDims < MaxSetDims
    /\ setDims' = setDims + 1
    /\ rect_size' = size
    /\ IF size # GetSize(image)
       THEN /\ lastTiling' = CreateTiledSurface(tile, size)
            /\ original_image' = PremulAlpha(lastTiling'.surface)
            /\ image' = original_image'
       ELSE UNCHANGED <<lastTiling, original_image, image>>
    /\ UNCHANGED <<tpc, tile, appVars, threadVars>>

ResizeWidget == \E size \in WidgetSizes : SetDimensions(size)

InitTile ==
    /\ tpc = "new"
    /\ tile = NoSurface
    /\ rect_size = <<0, 0>>
    /\ image = NoSurface
    /\ original_image = NoSurface
    /\ lastTiling = [surface |-> NoSurface, is_tile |-> FALSE, blits |-> <<>>, size |-> <<0, 0>>]
    /\ setDims = 0

NextTile ==
    \/ ConstructWidget
    \/ ResizeWidget

\* ------------------------------------- examples/threaded_basic.py
\* The GUI thread builds the app, starts the worker and runs the loop; the
\* worker polls the queue.  A Python statement that reads and then writes
\* an attribute is two steps, as the interpreter may switch threads between
\* them.

\* self._click_count = 0
GuiInitCounter ==
    /\ gpc = "new"
    /\ click_count' = 0
    /\ gpc' = "label"
    /\ UNCHANGED <<wpc, status_text, worker_queue, wtask, wtmp, clicks, appVars, tileVars>>

\* self._status = UILabel(rr, f'Clicks: {self._click_count}', ...)
GuiInitLabel ==
    /\ gpc = "label"
    /\ status_text' = click_count
    /\ gpc' = "start"
    /\ UNCHANGED <<wpc, click_count, worker_queue, wtask, wtmp, clicks, appVars, tileVars>>

\* self._worker_queue = queue.Queue(); self._worker_thread.start()
GuiStartWorker ==
    /\ gpc = "start"
    /\ worker_queue' = <<>>
    /\ wpc' = "poll"
    /\ gpc' = "loop"
    /\ UNCHANGED <<click_count, status_text, wtask, wtmp, clicks, appVars, tileVars>>

\* handle_event for the button: self._worker_queue.put({'command': 'increment'})
GuiClick ==
    /\ gpc = "loop"
    /\ clicks < MaxClicks
    /\ clicks' = clicks + 1
    /\ worker_queue' = Append(worker_queue, "increment")
    /\ UNCHANGED <<gpc, wpc, click_count, status_text, wtask, wtmp, appVars, tileVars>>

\* on_shutdown: self._worker_queue.put({'command': 'quit'})
GuiQuit ==
    /\ gpc = "loop"
    /\ worker_queue' = Append(worker_queue, "quit")
    /\ gpc' = "join"
    /\ UNCHANGED <<wpc, click_count, status_text, wtask, wtmp, clicks, appVars, tileVars>>

\* on_shutdown: self._worker_thread.join() returns once the worker has ended
GuiJoin ==
    /\ gpc = "join"
    /\ wpc = "exit"
    /\ gpc' = "done"
    /\ UNCHANGED <<wpc, click_count, status_text, worker_queue, wtask, wtmp, clicks, appVars,
                   tileVars>>

\* events still in the drained list behind the QUIT event, after on_shutdown
\* has returned: a button press puts 'increment' on the queue, another QUIT
\* calls on_shutdown again, which puts 'quit' and joins the ended thread
GuiLateEvent ==
    /\ gpc = "done"
    /\ Len(worker_queue) < MaxQueue
    /\ \E cmd \in {"increment", "quit"} : worker_queue' = Append(worker_queue, cmd)
    /\ UNCHANGED <<gpc, wpc, click_count, status_text, wtask, wtmp, clicks, appVars, tileVars>>

\* a worker that takes the newest command instead of the oldest
WorkerGet_TakesLast ==
    /\ wpc = "poll"
    /\ worker_queue # <<>>
    /\ wtask' = worker_queue[Len(worker_queue)]
    /\ worker_queue' = SubSeq(worker_queue, 1, Len(worker_queue) - 1)
    /\ wpc' = "dispatch"
    /\ UNCHANGED <<gpc, click_count, status_text, wtmp, clicks, appVars, tileVars>>

\* if not queue.empty(): task = queue.get(); cmd = task.get('command')
\* (an empty queue sends the worker round the loop again, which changes nothing)
WorkerGet ==
    /\ wpc = "poll"
    /\ worker_queue # <<>>
    /\ wtask' = Head(worker_queue)
    /\ worker_queue' = Tail(worker_queue)
    /\ wpc' = "dispatch"
    /\ UNCHANGED <<gpc, click_count, status_text, wtmp, clicks, appVars, tileVars>>

\* if cmd == 'quit': thread_running = False; if cmd == 'increment': ...
WorkerDispatch ==
    /\ wpc = "dispatch"
    /\ wpc' = IF wtask = "quit" THEN "exit" ELSE "read"
    /\ UNCHANGED <<gpc, click_count, status_text, worker_queue, wtask, wtmp, clicks, appVars,
                   tileVars>>

\* increment_clicks: self._click_count += 1, the read
WorkerRead ==
    /\ wpc = "read"
    /\ wtmp' = click_count
    /\ wpc' = "write"
    /\ UNCHANGED <<gpc, click_count, status_text, worker_queue, wtask, clicks, appVars,
                   tileVars>>

\* increment_clicks: self._click_count += 1, the write
WorkerWrite ==
    /\ wpc = "write"
    /\ click_count' = wtmp + 1
    /\ wpc' = "set_text"
    /\ UNCHANGED <<gpc, status_text, worker_queue, wtask, wtmp, clicks, appVars, tileVars>>

\* increment_clicks: self._status.set_text(f'Clicks: {self._click_count}')
WorkerSetText ==
    /\ wpc = "set_text"
    /\ status_text' = click_count
    /\ wpc' = "poll"
    /\ UNCHANGED <<gpc, click_count, worker_queue, wtask, wtmp, clicks, appVars, tileVars>>

InitThread ==
    /\ gpc = "new"
    /\ wpc = "idle"
    /\ click_count = 0
    /\ status_text = 0
    /\ worker_queue = <<>>
    /\ wtask = "none"
    /\ wtmp = 0
    /\ clicks = 0

NextThread ==
    \/ GuiInitCounter
    \/ GuiInitLabel
    \/ GuiStartWorker
    \/ GuiClick
    \/ GuiQuit
    \/ GuiJoin
    \/ GuiLateEvent
    \/ WorkerGet
    \/ WorkerDispatch
    \/ WorkerRead
    \/ WorkerWrite
    \/ WorkerSetText

InitApp ==
    /\ pc = "new"
    /\ winSize = <<0, 0>>
    /\ mgrSize = <<0, 0>>
    /\ is_running = FALSE
    /\ top_panel = NoPanel
    /\ middle_panel = NoPanel
    /\ bottom_panel = NoPanel
    /\ args = [frac |-> FALSE, top |-> 0, bottom |-> 0]
    /\ error = "none"
    /\ osQueue = <<>>
    /\ pending = <<>>
    /\ hookSeen = {}
    /\ mgrSeen = {}
    /\ shutdowns = 0
    /\ frames = 0
    /\ iter = 0
    /\ quitDrained = FALSE

Next ==
    \/ ConstructGuiApp
    \/ PostQuit
    \/ PostResize
    \/ PostOther
    \/ Run
    \/ MainLoopBegin
    \/ EventQuit
    \/ EventResize
    \/ EventOther
    \/ ReturnEarly
    \/ Frame
    \/ RunReturn

Init == InitApp /\ InitTile /\ InitThread

\* a GuiApp and its run loop
Spec == Init /\ [][Next]_vars

\* a ThreePanelApp whose window is resized while it runs
NextLayout ==
    \/ ConstructApp
    \/ PostResize
    \/ Run
    \/ MainLoopBegin
    \/ EventResize
    \/ Frame

SpecLayout == Init /\ [][NextLayout]_vars

SpecTile == Init /\ [][NextTile]_vars

\* the worker-thread example
SpecThread == Init /\ [][NextThread]_vars

\* a step of the worker thread
WorkerStep == WorkerGet \/ WorkerDispatch \/ WorkerRead \/ WorkerWrite \/ WorkerSetText

\* the worker-thread example with a scheduler that keeps running the worker
\* while it has a step to take, and a join that returns once the worker
\* has ended
SpecThreadFair ==
    Init /\ [][NextThread]_vars /\ WF_vars(WorkerStep) /\ WF_vars(GuiJoin)

\* ------------------------------------------------------ layout properties
LayoutExists == pc \in {"ready", "loop", "events", "done"}

\* the layout is the one derived for the window as it is now
LayoutCurrent == LayoutExists /\ mgrSize = winSize

PanelHeights == top_panel.rect.h + middle_panel.rect.h + bottom_panel.rect.h

ResizeHandled == \E e \in mgrSeen : e.type = "WINDOWRESIZED"

\* C1: with fractional heights whose sum is at most 1.0 and which leave room
\* for the middle panel, construction succeeds and the heights of the three
\* panels created sum to the window height.
C1_FractionsSumToHeight ==
    (/\ pc # "new"
     /\ args.frac
     /\ FAdd(args.top, args.bottom) <= One
     /\ MiddleHeight(TRUE, args.top, args.bottom, mgrSize[2]) > 0)
    => /\ pc # "failed"
       /\ pc = "ready" => PanelHeights = mgrSize[2]

\* C4 as claimed: whenever the layout exists, after construction and after
\* any resizes, the window height less the top and bottom panels' heights
\* is positive.
C4_MiddlePositiveAlways ==
    LayoutExists => mgrSize[2] - top_panel.rect.h - bottom_panel.rect.h > 0

\* C4 as amended: right after construction, before the loop has handled any
\* resize, the window height less the top and bottom panels' heights is
\* positive, and with pixel heights that is the middle panel's own height.
C4_MiddlePositiveAtConstruction ==
    pc = "ready" =>
        /\ mgrSize[2] - top_panel.rect.h - bottom_panel.rect.h > 0
        /\ ~args.frac => middle_panel.rect.h = mgrSize[2] - top_panel.rect.h - bottom_panel.rect.h

C4_Witness ==
    /\ pc = "ready"
    /\ top_panel.rect.h + bottom_panel.rect.h = mgrSize[2] - 1

\* C5: once the loop has handled the resizes, the top panel starts at the
\* window top, the bottom panel ends at the window bottom, the middle panel
\* runs from the bottom of the top panel to the top of the bottom panel,
\* all three are as wide as the window, and the heights sum to the window
\* height.
C5_ResizeRederives ==
    (LayoutCurrent /\ ResizeHandled) =>
        /\ Top(top_panel.rect) = 0
        /\ Bottom(bottom_panel.rect) = winSize[2]
        /\ Top(middle_panel.rect) = Bottom(top_panel.rect)
        /\ Bottom(middle_panel.rect) = Top(bottom_panel.rect)
        /\ \A p \in {top_panel, middle_panel, bottom_panel} :
              Left(p.rect) = 0 /\ p.rect.w = winSize[1]
        /\ PanelHeights = winSize[2]

\* ---------------------------------------------------- run loop properties
\* C6: an event that handle_event reported as handled is not handed to the
\* widget manager.
C6_HandledNotForwarded == \A e \in mgrSeen : ~e.handled

\* C7: once a QUIT event is taken, on_shutdown has been called and the loop
\* is stopped; the QUIT event reaches neither handle_event nor the widget
\* manager; no further update or draw happens and no further iteration
\* starts, so run() returns at the end of this one.
C7_QuitStopsLoop ==
    /\ [](quitDrained => (~is_running /\ shutdowns >= 1))
    /\ [](\A e \in hookSeen \cup mgrSeen : e.type # "QUIT")
    /\ [][quitDrained => (frames' = frames /\ iter' = iter)]_vars
    /\ [][(quitDrained /\ pc = "loop") => pc' \in {"loop", "done"}]_vars

C7_Witness ==
    /\ pc = "done"
    /\ quitDrained
    /\ frames = 1
    /\ hookSeen # {}

\* -------------------------------------------------- tiled widget properties
\* the offsets of a grid that steps x by the tile's width and y by its height
GridOf(size, t) ==
    {<<x, y>> : x \in {i * t.w : i \in 0..size[1]}, y \in {j * t.h : j \in 0..size[2]}}
      \cap ((0..(size[1] - 1)) \X (0..(size[2] - 1)))

Covered(s) == \A p \in Pixels(s.w, s.h) : s.pix[p] # "black"

BlitSet(tiling) == {tiling.blits[i] : i \in 1..Len(tiling.blits)}

\* C2: when the widget has the tile's size, also for a tile that is not
\* square, create_tiled_surface returns the tile itself and blits nothing.
C2_SameSizeUsesTile ==
    (tpc = "shown" /\ lastTiling.size = GetSize(tile))
    => (lastTiling.is_tile /\ lastTiling.blits = <<>>)

\* C3: when the widget's size differs from the tile's, the tile is blitted
\* at exactly the offsets of the grid that steps x by the tile's width and
\* y by the tile's height, and every pixel of the target is covered.
C3_GridCoversTarget ==
    (tpc = "shown" /\ lastTiling.size # GetSize(tile))
    => /\ ~lastTiling.is_tile
       /\ BlitSet(lastTiling) = GridOf(lastTiling.size, tile)
       /\ Covered(lastTiling.surface)

\* C9: after construction and after every set_dimensions, the displayed
\* surface has exactly the size of the widget's rectangle.
C9_ImageSizeIsRectSize == tpc = "shown" => GetSize(image) = rect_size

\* C10: after set_dimensions calls ending at a size, the displayed surface
\* is the one tiled from the original tile for that size, whatever sizes
\* were visited before.
C10_ResizeRecomputesFromTile ==
    (tpc = "shown" /\ setDims >= 1)
    => image = PremulAlpha(CreateTiledSurface(tile, rect_size).surface)

\* ------------------------------------------------ worker-thread example
\* the threads that are at an access to _click_count
CounterAccessors ==
    (IF gpc \in {"new", "label"} THEN {"gui"} ELSE {})
      \cup (IF wpc \in {"read", "write", "set_text"} THEN {"worker"} ELSE {})

\* C8, the opposite of what it claims: no state has both threads at an
\* access to the counter; the GUI thread's accesses all come before the
\* worker is started.
C8_CounterNeverShared == Cardinality(CounterAccessors) <= 1

\* ------------------------------------------------- construction errors
\* construction is over and the loop has handled nothing yet
JustConstructed == pc \in {"failed", "ready"}

NoRegion == top_panel = NoPanel /\ middle_panel = NoPanel /\ bottom_panel = NoPanel

\* H - top - bottom after the fractions are resolved, as __init__ computes it
MiddleValue == MiddleHeight(args.frac, args.top, args.bottom, mgrSize[2])

\* top + bottom is exactly 1.0, or exactly the window height
AtBoundary ==
    IF args.frac
    THEN FAdd(args.top, args.bottom) = One
    ELSE args.top + args.bottom = mgrSize[2]

\* C11: in either mode, when H - top - bottom after the fractions are
\* resolved is <= 0, and in particular when top + bottom is exactly 1.0
\* (fractions) or exactly H (pixels), construction fails with an error and
\* no region is created.
C11_NoRoomRejected ==
    (JustConstructed /\ (MiddleValue <= 0 \/ AtBoundary))
    => (pc = "failed" /\ error # "none" /\ NoRegion)

\* C12: with fractional heights construction fails, with the 'Total is >
\* 100%' error and no region created, when the top height or the bottom
\* height or their sum exceeds 1.0.
C12_FractionsOverOneRejected ==
    (/\ JustConstructed
     /\ args.frac
     /\ (args.top > One \/ args.bottom > One \/ FAdd(args.top, args.bottom) > One))
    => (pc = "failed" /\ error = "Total is > 100%" /\ NoRegion)

C12_Witness ==
    /\ pc = "failed"
    /\ args.frac
    /\ args.top <= One
    /\ args.bottom <= One
    /\ FAdd(args.top, args.bottom) > One

\* C13: with pixel heights construction fails, with the 'Total is > window
\* height' error and no region created, when the top and bottom heights
\* sum to more than the window height.
C13_PixelsOverHeightRejected ==
    (/\ JustConstructed
     /\ ~args.frac
     /\ args.top + args.bottom > mgrSize[2])
    => (pc = "failed" /\ error = "Total is > window height" /\ NoRegion)

C13_Witness ==
    /\ pc = "failed"
    /\ ~args.frac
    /\ args.top + args.bottom = mgrSize[2] + 1

\* ------------------------------------------------------------- shutdown
\* C14: during one call of run() on_shutdown is called at most once,
\* whatever events are waiting, several QUIT events or events behind a
\* QUIT event in one drain of the queue included.
C14_ShutdownAtMostOnce == shutdowns <= 1

\* C15: with the worker scheduled fairly, on_shutdown returns: the worker
\* takes 'quit', ends, and join completes.  When it has returned the click
\* counter, and the label, equal the number of 'increment' commands put on
\* the queue before 'quit'; the counter never exceeds the number enqueued,
\* and nothing enqueued later is applied.
C15_ShutdownDrainsQueue ==
    /\ (gpc = "join") ~> (gpc = "done")
    /\ [](gpc = "done" => (wpc = "exit" /\ click_count = clicks /\ status_text = clicks))
    /\ [](click_count <= clicks)

C15_Witness ==
    /\ gpc = "done"
    /\ wpc = "exit"
    /\ clicks >= 2
    /\ click_count = clicks
    /\ worker_queue # <<>>

====
